---------------------------- MODULE Spec2Model ----------------------------
(***************************************************************************)
(* A model of clip-finder's backend: the transcript chunker, the reference *)
(* classifier, the retrieval filter and the corpus operations of           *)
(* backend/ingest.py, backend/rag.py and backend/server.py.                *)
(*                                                                         *)
(* Times are fixed-point numbers in tenths of a second (the caption source *)
(* gives floats); Seconds(n) is n whole seconds and IntPart is Python's    *)
(* int() on a non-negative float.  Texts, URLs and keys are strings.       *)
(***************************************************************************)
EXTENDS Integers, Sequences, FiniteSets, TLC

VARIABLES
    \* ---- get_transcript_chunks, one loop iteration per step
    transcript,          \* the caption fragments fetched for the video
    entry_i,             \* number of fragments the loop has consumed
    current_chunk_text,  \* ingest.py:396
    current_chunk_start, \* ingest.py:397
    current_duration,    \* ingest.py:398
    chunks,              \* ingest.py:378
    close_idx,           \* history: index of the fragment that closed each chunk
    close_acc,           \* history: current_duration when each chunk was closed
    chunk_pc             \* "idle" | "loop" | "done"

chunkVars == <<transcript, entry_i, current_chunk_text, current_chunk_start,
               current_duration, chunks, close_idx, close_acc, chunk_pc>>

    \* ---- detect_url_type
VARIABLES
    url,                 \* the reference string given to the classifier
    url_type,            \* the first component of the returned tuple
    url_id,              \* the second component of the returned tuple
    url_pc               \* "idle" | "given" | "classified"

urlVars == <<url, url_type, url_id, url_pc>>

    \* ---- the retrieval filter of rag.search
VARIABLES
    q_limit,             \* search's limit argument
    q_docs,              \* the ranked candidates the retriever returned
    q_clips,             \* relevantClips of the returned SearchResult
    q_pc                 \* "idle" | "retrieved" | "returned"

queryVars == <<q_limit, q_docs, q_clips, q_pc>>

    \* ---- the process: environment, corpus, cached clients, requests
VARIABLES
    env_key,             \* os.getenv("GEMINI_API_KEY"), NoneValue when unset
    corpus,              \* the records of the collection, in insertion order
    next_batch,          \* the number of the next add_documents call (its time)
    ingest_vs,           \* ingest.py _vectorstore_instance is not None
    rag,                 \* rag.py _vectorstore_instance, _vectorstore_api_key,
                         \*        _embeddings_instance, _embeddings_api_key
    run,                 \* the ingestion runs: the generator of ingest_url
    runs_started,        \* how many ingestion requests were accepted
    ret,                 \* what the last call other than an ingestion step returned
    prev                 \* history: the last ingestion run that ran undisturbed
                         \* to its end, until another call is made

mainVars == <<env_key, corpus, next_batch, ingest_vs, rag, run, runs_started, ret, prev>>

    \* ---- server.py ingest_endpoint.generate_events
VARIABLES
    serve_pc,            \* "idle" | "requested" | "streaming" | "closed"
    serve_url,           \* request.url
    messages,            \* the part of `messages` the for loop has yet to yield
    stream,              \* the events the consumer has received
    serve_raised         \* whether the except branch was entered

serveVars == <<serve_pc, serve_url, messages, stream, serve_raised>>

vars == <<chunkVars, urlVars, queryVars, mainVars, serveVars>>

-----------------------------------------------------------------------------
(* Helpers *)

Seconds(n) == n * 10

IntPart(t) == t \div 10

Min(a, b) == IF a <= b THEN a ELSE b

Range(s) == {s[i] : i \in 1..Len(s)}

RECURSIVE LStrip(_)
LStrip(s) == IF Len(s) > 0 /\ SubSeq(s, 1, 1) = " "
             THEN LStrip(SubSeq(s, 2, Len(s))) ELSE s

RECURSIVE RStrip(_)
RStrip(s) == IF Len(s) > 0 /\ SubSeq(s, Len(s), Len(s)) = " "
             THEN RStrip(SubSeq(s, 1, Len(s) - 1)) ELSE s

\* str.strip()
Strip(s) == RStrip(LStrip(s))


-----------------------------------------------------------------------------
(* Reference classifier: ingest.py detect_url_type *)

NoneValue == "<None>"

\* [a-zA-Z0-9_-]
IdChars ==
    {"a","b","c","d","e","f","g","h","i","j","k","l","m","n","o","p","q","r",
     "s","t","u","v","w","x","y","z","A","B","C","D","E","F","G","H","I","J",
     "K","L","M","N","O","P","Q","R","S","T","U","V","W","X","Y","Z","0","1",
     "2","3","4","5","6","7","8","9","_","-"}

CharAt(s, i) == SubSeq(s, i, i)

\* the length of the run of id characters of s that starts at position i
RECURSIVE IdRun(_, _)
IdRun(s, i) == IF i <= Len(s) /\ CharAt(s, i) \in IdChars THEN 1 + IdRun(s, i + 1) ELSE 0

\* A pattern is an optional leading character class, a literal, and a group of
\* id characters: exactly `n` of them (fixed) or one or more (n = 0).
Pat(pre, lit, n) == [pre |-> pre, lit |-> lit, n |-> n]

VIDEO_ID_LEN == 11

\* ingest.py:449-452
playlist_patterns ==
    << Pat({"?", "&"}, "list=", 0),
       Pat({}, "youtube.com/playlist?list=", 0) >>

\* ingest.py:455-461
video_patterns ==
    << Pat({"?", "&"}, "v=", VIDEO_ID_LEN),
       Pat({}, "youtu.be/", VIDEO_ID_LEN),
       Pat({}, "youtube.com/embed/", VIDEO_ID_LEN),
       Pat({}, "youtube.com/v/", VIDEO_ID_LEN),
       Pat({}, "youtube.com/shorts/", VIDEO_ID_LEN) >>

\* ingest.py:464-469
channel_patterns ==
    << Pat({}, "youtube.com/@", 0),
       Pat({}, "youtube.com/channel/", 0),
       Pat({}, "youtube.com/c/", 0),
       Pat({}, "youtube.com/user/", 0) >>

\* the pattern matches s at position i
MatchAt(p, s, i) ==
    LET j == IF p.pre = {} THEN i ELSE i + 1      \* where the literal starts
        g == j + Len(p.lit)                       \* where the group starts
    IN  /\ (p.pre # {} => CharAt(s, i) \in p.pre)
        /\ g - 1 <= Len(s)
        /\ SubSeq(s, j, g - 1) = p.lit
        /\ IdRun(s, g) >= (IF p.n = 0 THEN 1 ELSE p.n)

\* re.search: the leftmost position where the pattern matches, 0 for no match
RECURSIVE re_search_from(_, _, _)
re_search_from(p, s, i) ==
    IF i > Len(s) THEN 0 ELSE IF MatchAt(p, s, i) THEN i ELSE re_search_from(p, s, i + 1)

re_search(p, s) == re_search_from(p, s, 1)

\* match.group(1) of the match at position i
Group1(p, s, i) ==
    LET g == (IF p.pre = {} THEN i ELSE i + 1) + Len(p.lit)
        n == IF p.n = 0 THEN IdRun(s, g) ELSE p.n
    IN  SubSeq(s, g, g + n - 1)

\* the first pattern of the list that matches, 0 for none (the for loops of 472-487)
RECURSIVE FirstMatchingFrom(_, _, _)
FirstMatchingFrom(patterns, s, k) ==
    IF k > Len(patterns) THEN 0
    ELSE IF re_search(patterns[k], s) # 0 THEN k
    ELSE FirstMatchingFrom(patterns, s, k + 1)

FirstMatching(patterns, s) == FirstMatchingFrom(patterns, s, 1)

GroupOf(patterns, s) ==
    LET k == FirstMatching(patterns, s)
    IN  Group1(patterns[k], s, re_search(patterns[k], s))

\* ingest.py:471-489, with the video patterns tried first
detect_url_type_video_first(s) ==
    IF FirstMatching(video_patterns, s) # 0
    THEN <<"video", GroupOf(video_patterns, s)>>
    ELSE IF FirstMatching(playlist_patterns, s) # 0
    THEN <<"playlist", GroupOf(playlist_patterns, s)>>
    ELSE IF FirstMatching(channel_patterns, s) # 0
    THEN <<"channel", s>>
    ELSE <<"unknown", NoneValue>>

\* ingest.py:471-489
detect_url_type(s) ==
    IF FirstMatching(playlist_patterns, s) # 0
    THEN <<"playlist", GroupOf(playlist_patterns, s)>>
    ELSE IF FirstMatching(video_patterns, s) # 0
    THEN <<"video", GroupOf(video_patterns, s)>>
    ELSE IF FirstMatching(channel_patterns, s) # 0
    THEN <<"channel", s>>
    ELSE <<"unknown", NoneValue>>

-----------------------------------------------------------------------------
(* Transcript chunker: ingest.py get_transcript_chunks *)

CHUNK_SIZE_SECONDS == 60

\* ingest.py:413, the close test, in the unit of the durations
ShouldCloseUnscaled(duration) == duration >= CHUNK_SIZE_SECONDS
ShouldClose(duration) == duration >= Seconds(CHUNK_SIZE_SECONDS)

\* ingest.py:406-407, the start of the chunk being built
ChunkStartNeverReset(text, chunk_start, start) == chunk_start
ChunkStart(text, chunk_start, start) == IF text = "" THEN start ELSE chunk_start

\* ingest.py:414-418 and 426-430, the emitted chunk
MakeChunk(text, chunk_start, end) ==
    [text |-> Strip(text), start_seconds |-> IntPart(chunk_start),
     end_seconds |-> IntPart(end)]

\* The loop state as a record, and one iteration of the loop (ingest.py:400-422)
ChunkerInit ==
    [text |-> "", start |-> 0, duration |-> 0, chunks |-> <<>>,
     close_idx |-> <<>>, close_acc |-> <<>>]

ChunkLoopBody(st, entry, i) ==
    LET cstart == ChunkStart(st.text, st.start, entry.start)
        text   == st.text \o " " \o entry.text
        dur    == st.duration + entry.duration
    IN  IF ShouldClose(dur)
        THEN [text |-> "", start |-> cstart, duration |-> 0,
              chunks |-> Append(st.chunks,
                                MakeChunk(text, cstart, entry.start + entry.duration)),
              close_idx |-> Append(st.close_idx, i),
              close_acc |-> Append(st.close_acc, dur)]
        ELSE [text |-> text, start |-> cstart, duration |-> dur,
              chunks |-> st.chunks,
              close_idx |-> st.close_idx, close_acc |-> st.close_acc]

ChunkLoopEndDropped(st, tr) == st

\* ingest.py:424-430, the last chunk
ChunkLoopEnd(st, tr) ==
    IF Strip(st.text) # ""
    THEN [st EXCEPT !.chunks = Append(st.chunks,
                        MakeChunk(st.text, st.start,
                                  tr[Len(tr)].start + tr[Len(tr)].duration)),
                    !.close_idx = Append(st.close_idx, Len(tr)),
                    !.close_acc = Append(st.close_acc, st.duration)]
    ELSE st

RECURSIVE ChunkLoop(_, _, _)
ChunkLoop(st, tr, i) ==
    IF i > Len(tr) THEN st ELSE ChunkLoop(ChunkLoopBody(st, tr[i], i), tr, i + 1)

\* ingest.py:372-436 on a fetched transcript
get_transcript_chunks(tr) ==
    IF tr = <<>> THEN <<>> ELSE ChunkLoopEnd(ChunkLoop(ChunkerInit, tr, 1), tr).chunks


-----------------------------------------------------------------------------
(* Retrieval filter: rag.py search, lines 168-211 *)

SKIP_INTRO_SECONDS == 120

\* rag.py:188
IsIntroInclusive(start_seconds) == start_seconds <= SKIP_INTRO_SECONDS
IsIntro(start_seconds) == start_seconds < SKIP_INTRO_SECONDS

\* rag.py:192, the citation id of the clip accepted at loop position i when
\* clip_index clips were accepted before it
ClipIdByPosition(i, clip_index) == "clip_" \o ToString(i - 1)
ClipId(i, clip_index) == "clip_" \o ToString(clip_index)

\* rag.py:196-205
MakeClip(doc, clip_id) ==
    [id           |-> clip_id,
     videoId      |-> doc.metadata.video_id,
     title        |-> doc.metadata.title,
     channelName  |-> doc.metadata.channel_name,
     startSeconds |-> doc.metadata.start_seconds,
     endSeconds   |-> doc.metadata.end_seconds,
     content      |-> doc.page_content,
     thumbnailUrl |-> doc.metadata.thumbnail_url]

\* rag.py:179-206
RECURSIVE SearchLoop(_, _, _, _, _)
SearchLoop(docs, limit, i, clips, clip_index) ==
    IF i > Len(docs) \/ Len(clips) >= limit THEN clips
    ELSE IF IsIntro(docs[i].metadata.start_seconds)
    THEN SearchLoop(docs, limit, i + 1, clips, clip_index)
    ELSE SearchLoop(docs, limit, i + 1,
                    Append(clips, MakeClip(docs[i], ClipId(i, clip_index))),
                    clip_index + 1)

\* rag.py:168-211
search_clips(docs, limit) ==
    IF docs = <<>> THEN <<>> ELSE SearchLoop(docs, limit, 1, <<>>, 0)

-----------------------------------------------------------------------------
(* The corpus (the "video_knowledge" collection) and the operations that   *)
(* scan it: ingest.py get_indexed_video_ids, get_library, rename_channel,  *)
(* get_video_transcript, delete_video                                      *)

\* the videos of the environment, their captions and their scraped metadata
V1 == "dQw4w9WgXcQ"
V2 == "9bZkp7q19f0"
Videos == {V1, V2}

UNKNOWN_CHANNEL == "Unknown Channel"
UNKNOWN_TITLE == "Unknown Title"
CHAN_A == "Chan A"

\* what YouTubeTranscriptApi.fetch returns for a video when it succeeds
Captions(v) ==
    IF v = V1
    THEN << [text |-> "hello", start |-> 0, duration |-> 605],
            [text |-> "world", start |-> Seconds(120), duration |-> Seconds(30)] >>
    ELSE << [text |-> "again", start |-> 0, duration |-> Seconds(40)] >>

\* vectorstore.get(): the parallel lists Chroma returns
StoreIds(c) == [i \in 1..Len(c) |-> c[i].id]
StoreMetadatas(c) == [i \in 1..Len(c) |-> c[i].metadata]
StoreDocuments(c) == [i \in 1..Len(c) |-> c[i].document]

\* ingest.py:84-90
IndexedIds(c) == {StoreMetadatas(c)[i].video_id : i \in 1..Len(c)}

\* ingest.py:530-542, 609-621, 716-728: the Document of one chunk
MakeDocument(chunk, video_id, title, channel_name, indexed_at) ==
    [document |-> chunk.text,
     metadata |-> [video_id      |-> video_id,
                   title         |-> title,
                   channel_name  |-> channel_name,
                   start_seconds |-> chunk.start_seconds,
                   end_seconds   |-> chunk.end_seconds,
                   source_url    |-> "https://www.youtube.com/watch?v=" \o video_id,
                   thumbnail_url |-> "https://img.youtube.com/vi/" \o video_id \o "/mqdefault.jpg",
                   indexed_at    |-> indexed_at]]

MakeDocuments(cs, video_id, title, channel_name, indexed_at) ==
    [k \in 1..Len(cs) |-> MakeDocument(cs[k], video_id, title, channel_name, indexed_at)]

\* vectorstore.add_documents: the store gives each document an id of its own
AddDocuments(c, documents, batch) ==
    c \o [k \in 1..Len(documents) |->
            [id |-> <<batch, k>>, document |-> documents[k].document,
             metadata |-> documents[k].metadata]]

\* ---- get_library

\* `channel_name not in channels_data`: the position of the channel's entry, 0 for none
RECURSIVE ChannelIndexFrom(_, _, _)
ChannelIndexFrom(data, name, i) ==
    IF i > Len(data) THEN 0
    ELSE IF data[i].name = name THEN i ELSE ChannelIndexFrom(data, name, i + 1)

ChannelIndex(data, name) == ChannelIndexFrom(data, name, 1)

\* `video_id not in ...['videos']`: the position of the video's entry, 0 for none
RECURSIVE VideoIndexFrom(_, _, _)
VideoIndexFrom(videos, video_id, i) ==
    IF i > Len(videos) THEN 0
    ELSE IF videos[i].videoId = video_id THEN i ELSE VideoIndexFrom(videos, video_id, i + 1)

VideoIndex(videos, video_id) == VideoIndexFrom(videos, video_id, 1)

\* ingest.py:128-134, with the count starting at 1
\* ingest.py:128-134
NewVideoEntry(meta) ==
    [videoId |-> meta.video_id, title |-> meta.title,
     thumbnailUrl |-> meta.thumbnail_url, clipCount |-> 0,
     indexedAt |-> meta.indexed_at]

\* ingest.py:112-137, one iteration; channels_data is kept in insertion order
LibraryAdd(data, meta) ==
    IF meta.video_id = "" THEN data
    ELSE
    LET d1 == IF ChannelIndex(data, meta.channel_name) = 0
              THEN Append(data, [name |-> meta.channel_name, videos |-> <<>>])
              ELSE data
        ci == ChannelIndex(d1, meta.channel_name)
        vs == IF VideoIndex(d1[ci].videos, meta.video_id) = 0
              THEN Append(d1[ci].videos, NewVideoEntry(meta))
              ELSE d1[ci].videos
        vi == VideoIndex(vs, meta.video_id)
    IN  [d1 EXCEPT ![ci].videos = [vs EXCEPT ![vi].clipCount = @ + 1]]

RECURSIVE LibraryFold(_, _, _)
LibraryFold(data, metas, i) ==
    IF i > Len(metas) THEN data ELSE LibraryFold(LibraryAdd(data, metas[i]), metas, i + 1)

\* the channel names in the order sorted() gives them
ChannelNamesSorted == <<"Chan A", "Chan B", "Unknown Channel">>

\* ingest.py:144, sorted(channels_data.items())
SortedChannels(data) ==
    LET Pick(name) == data[ChannelIndex(data, name)]
        Present(name) == ChannelIndex(data, name) # 0
        RECURSIVE Go(_)
        Go(k) == IF k > Len(ChannelNamesSorted) THEN <<>>
                 ELSE (IF Present(ChannelNamesSorted[k])
                       THEN <<Pick(ChannelNamesSorted[k])>> ELSE <<>>) \o Go(k + 1)
    IN  Go(1)

\* ingest.py:146, total_videos += len(videos), over the channels
RECURSIVE SumVideoCounts(_)
SumVideoCounts(channels_list) ==
    IF channels_list = <<>> THEN 0
    ELSE Head(channels_list).videoCount + SumVideoCounts(Tail(channels_list))

EmptyLibrary == [channels |-> <<>>, totalVideos |-> 0, totalClips |-> 0]

\* ingest.py:104-157 on the lists vectorstore.get() returned
get_library(c) ==
    IF c = <<>> THEN EmptyLibrary
    ELSE
    LET data == SortedChannels(LibraryFold(<<>>, StoreMetadatas(c), 1))
        channels_list == [k \in 1..Len(data) |->
                            [name |-> data[k].name,
                             videoCount |-> Len(data[k].videos),
                             videos |-> data[k].videos]]
    IN  [channels    |-> channels_list,
         totalVideos |-> SumVideoCounts(channels_list),
         totalClips  |-> Len(StoreMetadatas(c))]

\* ---- rename_channel

\* ingest.py:188-194, the positions of the records to update
RenameMatchesAll(c, old_name) == {i \in 1..Len(c) : TRUE}
RenameMatches(c, old_name) == {i \in 1..Len(c) : c[i].metadata.channel_name = old_name}

RenameUpdateTitle(c, old_name, new_name) ==
    [i \in 1..Len(c) |->
        IF c[i].metadata.channel_name = old_name
        THEN [c[i] EXCEPT !.metadata.channel_name = new_name, !.metadata.title = new_name]
        ELSE c[i]]

\* ingest.py:201-204, collection.update
RenameUpdate(c, old_name, new_name) ==
    [i \in 1..Len(c) |->
        IF i \in RenameMatches(c, old_name)
        THEN [c[i] EXCEPT !.metadata.channel_name = new_name]
        ELSE c[i]]

\* ingest.py:181-209, the returned dict
RenameFoundAlways(c, old_name) == TRUE
RenameFound(c, old_name) == RenameMatches(c, old_name) # {}

rename_result(c, old_name, new_name) ==
    IF c = <<>>
    THEN [success |-> FALSE, error |-> "Database is empty", updatedClips |-> 0]
    ELSE IF ~RenameFound(c, old_name)
    THEN [success |-> FALSE, error |-> "Channel '" \o old_name \o "' not found",
          updatedClips |-> 0]
    ELSE [success |-> TRUE, error |-> NoneValue,
          updatedClips |-> Cardinality(RenameMatches(c, old_name))]

\* ---- delete_video

\* ingest.py:287-290
DeleteMatchesFirst(c, video_id) ==
    LET all == {i \in 1..Len(c) : c[i].metadata.video_id = video_id}
    IN  {i \in all : \A j \in all : i <= j}
DeleteMatches(c, video_id) == {i \in 1..Len(c) : c[i].metadata.video_id = video_id}

\* ingest.py:296, vectorstore.delete
RECURSIVE DeleteRecords(_, _, _)
DeleteRecords(c, video_id, i) ==
    IF i > Len(c) THEN <<>>
    ELSE (IF i \in DeleteMatches(c, video_id) THEN <<>> ELSE <<c[i]>>)
         \o DeleteRecords(c, video_id, i + 1)

\* ingest.py:283-301, the returned dict
delete_result(c, video_id) ==
    IF c = <<>>
    THEN [success |-> FALSE, error |-> "Database is empty", deletedClips |-> 0]
    ELSE IF DeleteMatches(c, video_id) = {}
    THEN [success |-> FALSE, error |-> "Video not found", deletedClips |-> 0]
    ELSE [success |-> TRUE, error |-> NoneValue,
          deletedClips |-> Cardinality(DeleteMatches(c, video_id))]

\* ---- get_video_transcript

\* ingest.py:237-247
RECURSIVE TranscriptChunks(_, _, _)
TranscriptChunks(c, video_id, i) ==
    IF i > Len(c) THEN <<>>
    ELSE (IF c[i].metadata.video_id = video_id
          THEN << [text |-> c[i].document,
                   start_seconds |-> c[i].metadata.start_seconds,
                   end_seconds |-> c[i].metadata.end_seconds] >>
          ELSE <<>>) \o TranscriptChunks(c, video_id, i + 1)

\* list.sort(key=start_seconds): a stable sort, here by insertion
RECURSIVE InsertByStart(_, _)
InsertByStart(sorted, x) ==
    IF sorted = <<>> THEN <<x>>
    ELSE IF x.start_seconds < Head(sorted).start_seconds THEN <<x>> \o sorted
    ELSE <<Head(sorted)>> \o InsertByStart(Tail(sorted), x)

RECURSIVE SortByStart(_)
SortByStart(seq) ==
    IF seq = <<>> THEN <<>>
    ELSE InsertByStart(SortByStart(SubSeq(seq, 1, Len(seq) - 1)), seq[Len(seq)])

\* ingest.py:229-261, the returned dict
transcript_result(c, video_id) ==
    IF c = <<>>
    THEN [success |-> FALSE, error |-> "Database is empty", chunks |-> <<>>]
    ELSE IF TranscriptChunks(c, video_id, 1) = <<>>
    THEN [success |-> FALSE, error |-> "Video not found", chunks |-> <<>>]
    ELSE [success |-> TRUE, error |-> NoneValue,
          chunks |-> SortByStart(TranscriptChunks(c, video_id, 1))]

-----------------------------------------------------------------------------
(* Credentials and the cached clients: ingest.py:37-77, rag.py:63-135 *)

PLACEHOLDER_API_KEY == "PLACEHOLDER_API_KEY"
SERVER_KEY == "AIzaSyServer-key-000"
USER_KEY == "AIzaSyUser-key-00001"
OTHER_USER_KEY == "AIzaSyUser-key-00002"

\* `not key_to_use or key_to_use == "PLACEHOLDER_API_KEY"` (ingest.py:49, rag.py:77)
Falsy(k) == k = NoneValue \/ k = ""
BadKey(k) == Falsy(k) \/ k = PLACEHOLDER_API_KEY

\* `api_key or os.getenv("GEMINI_API_KEY")`
KeyToUse(api_key, env) == IF Falsy(api_key) THEN env ELSE api_key

\* key[:10]
KEY_PREFIX_LEN == 10
Prefix(k) == SubSeq(k, 1, Min(KEY_PREFIX_LEN, Len(k)))

\* ingest.py:65-77: get_vectorstore() raises exactly when no instance is cached
\* and get_embeddings() (ingest.py:43-62) refuses the environment's key
IngestVectorstoreRaises(cached, env) == ~cached /\ BadKey(env)

\* rag.py:72-91 get_embeddings(api_key) on the cache state c
RagGetEmbeddings(c, api_key, env) ==
    LET key == KeyToUse(api_key, env)
    IN  IF BadKey(key) THEN [c EXCEPT !.raised = TRUE]
        ELSE IF /\ c.emb_instance # NoneValue
                /\ ~Falsy(c.emb_api_key)
                /\ Prefix(c.emb_api_key) = Prefix(key)
        THEN [c EXCEPT !.emb_out = c.emb_instance]
        ELSE [c EXCEPT !.emb_api_key = key, !.emb_instance = key, !.emb_out = key]

\* rag.py:117-135 get_vectorstore(api_key) on the cache state c; an instance
\* is represented by the key its embeddings client was built with
RagGetVectorstore(c, api_key, env) ==
    LET key == KeyToUse(api_key, env)
    IN  IF /\ c.vs_instance # NoneValue
           /\ ~Falsy(c.vs_api_key)
           /\ ~Falsy(key)
           /\ Prefix(c.vs_api_key) = Prefix(key)
        THEN c
        ELSE LET c1 == [c EXCEPT !.vs_api_key = key]
                 c2 == RagGetEmbeddings(c1, api_key, env)
             IN  IF c2.raised THEN c2 ELSE [c2 EXCEPT !.vs_instance = c2.emb_out]

-----------------------------------------------------------------------------
(* The ingestion orchestrator: ingest.py ingest_url, ingest_single_video,  *)
(* ingest_playlist, ingest_channel                                         *)

\* the references given to ingest_url
VIDEO_URL == "https://youtu.be/dQw4w9WgXcQ"
PLAYLIST_URL == "https://www.youtube.com/playlist?list=PL12"
CHANNEL_URL == "https://www.youtube.com/@chan"
OTHER_URL == "https://example.com/watch"
References == {VIDEO_URL, PLAYLIST_URL, CHANNEL_URL, OTHER_URL}

\* detect_url_type on each of them, computed once
Detected == [u \in References |-> detect_url_type(u)]

\* one entry of what scrapetube yields
Item(video_id, title, owner) ==
    [videoId |-> video_id, title |-> title, ownerText |-> owner,
     longBylineText |-> NoneValue, shortBylineText |-> NoneValue]

\* scrapetube.get_playlist(playlist_id): this playlist lists one video twice and
\* its entries carry no owner field
PlaylistItems(playlist_id) ==
    IF playlist_id = "PL12"
    THEN << Item(V2, "Second", NoneValue), Item(V2, "Second", NoneValue) >>
    ELSE <<>>

\* scrapetube.get_channel(channel_url, sort_by='oldest')
ChannelItems(channel_url) ==
    IF channel_url = CHANNEL_URL
    THEN << Item(V1, "First", NoneValue), Item(V2, "Second", NoneValue) >>
    ELSE <<>>

\* ingest.py:307-318
extract_video_title(video) ==
    IF video.title = NoneValue THEN UNKNOWN_TITLE ELSE video.title

\* ingest.py:321-347
extract_channel_name(video) ==
    IF video.ownerText # NoneValue THEN video.ownerText
    ELSE IF video.longBylineText # NoneValue THEN video.longBylineText
    ELSE IF video.shortBylineText # NoneValue THEN video.shortBylineText
    ELSE UNKNOWN_CHANNEL

\* ingest.py:350-369: the oEmbed answer, or the fallback when the lookup fails
fetch_video_metadata(video_id, ok) ==
    IF ok THEN <<IF video_id = V1 THEN "First" ELSE "Second", CHAN_A>>
    ELSE <<"Video " \o video_id, UNKNOWN_CHANNEL>>

\* title[:50]
TITLE_DISPLAY_LEN == 50
Truncated(title) == SubSeq(title, 1, Min(TITLE_DISPLAY_LEN, Len(title)))

\* a progress message: its kind, two numbers and a text
Ev(kind, i, n, s) == [kind |-> kind, i |-> i, n |-> n, s |-> s]

\* ingest.py:580, 682: the membership filter
IsNewAlways(video_id, indexed_ids) == TRUE
IsNew(video_id, indexed_ids) == video_id \notin indexed_ids

RECURSIVE NewVideos(_, _)
NewVideos(videos, indexed_ids) ==
    IF videos = <<>> THEN <<>>
    ELSE (IF IsNew(Head(videos).videoId, indexed_ids) THEN <<Head(videos)>> ELSE <<>>)
         \o NewVideos(Tail(videos), indexed_ids)

\* get_transcript_chunks(video_id) when the caption source answers (the
\* chunks of each video, computed once), and when it fails (ingest.py:432-436)
ChunksOf == [v \in Videos |-> get_transcript_chunks(Captions(v))]
CaptionOutcomes == {"ok", "empty", "fail"}
FetchedChunksKept(video_id, cap) == IF cap = "fail" THEN <<>> ELSE ChunksOf[video_id]
FetchedChunks(video_id, cap) ==
    IF cap = "ok" THEN ChunksOf[video_id]
    ELSE IF cap = "empty" THEN get_transcript_chunks(<<>>)
    ELSE <<>>

get_indexed_video_ids_unread(c, raises) == {}

\* ingest.py:80-92: the exception of get_vectorstore() is swallowed
get_indexed_video_ids(c, raises) == IF raises THEN {} ELSE IndexedIds(c)

RunIds == {1, 2}

NoHistory ==
    [valid |-> FALSE, url |-> "", enum |-> "none",
     caps |-> [v \in Videos |-> "none"], persist_failed |-> FALSE, added |-> 0,
     corpus |-> <<>>]

IdleRun ==
    [pc |-> "idle", url |-> "", kind |-> NoneValue, arg |-> NoneValue,
     videos |-> <<>>, channel_name |-> NoneValue, indexed_ids |-> {},
     new_videos |-> <<>>, i |-> 0,
     unit_title |-> NoneValue, unit_channel |-> NoneValue, unit_chunks |-> <<>>,
     indexed_count |-> 0, skipped_count |-> 0,
     events |-> <<>>, net |-> <<>>, raised |-> FALSE,
     \* history
     clean |-> TRUE, first |-> NoHistory, enum |-> "none",
     caps |-> [v \in Videos |-> "none"], persist_failed |-> FALSE, added |-> 0,
     unit_log |-> <<>>, after_delete |-> NoneValue]

InProgress(rr) == rr.pc \notin {"idle", "done"}

Multi(rr) == rr.kind \in {"playlist", "channel"}

\* what the run leaves behind for the next one
HistoryOf(rr, c) ==
    [valid |-> rr.clean, url |-> rr.url, enum |-> rr.enum, caps |-> rr.caps,
     persist_failed |-> rr.persist_failed, added |-> rr.added, corpus |-> c]

Emit(rr, evs) == [rr EXCEPT !.events = @ \o evs]

\* the end of the generator: a return, or the exception that leaves it
FinishContinues(rr) == [rr EXCEPT !.pc = "membership"]
Finish(rr) == [rr EXCEPT !.pc = "done"]
Raise(rr) == [rr EXCEPT !.pc = "done", !.raised = TRUE]

NextUnitAbort(rr) ==
    Finish(Emit([rr EXCEPT !.unit_chunks = <<>>],
                <<Ev("complete", rr.indexed_count, rr.skipped_count, "")>>))

\* the end of one iteration of the loop over new_videos (ingest.py:592-634,
\* 696-743): the next unit, or the summary
NextUnit(rr) ==
    IF rr.i < Len(rr.new_videos)
    THEN [rr EXCEPT !.i = @ + 1, !.pc = "fetch", !.unit_chunks = <<>>]
    ELSE Finish(Emit([rr EXCEPT !.unit_chunks = <<>>],
                     <<Ev("complete", rr.indexed_count, rr.skipped_count, "")>>))

\* ingest.py:761-776 and the start of the routed generator up to the
\* membership read: 502, 564-573, 650-675
StartRun(u, enum_ok, meta_ok) ==
    LET d   == Detected[u]
        r0  == [IdleRun EXCEPT !.url = u, !.kind = d[1], !.arg = d[2],
                               !.events = <<Ev("detected", 0, 0, d[1])>>]
    IN  IF d[1] = "video"
        THEN [Emit(r0, <<Ev("processing", 0, 0, d[2])>>) EXCEPT !.pc = "membership"]
        ELSE IF d[1] = "unknown"
        THEN Finish(Emit(r0, <<Ev("unknown_url", 0, 0, "")>>))
        ELSE
        LET r1 == [Emit(r0, <<Ev("scan", 0, 0, "")>>) EXCEPT
                       !.net = Append(@, "enumerate"),
                       !.enum = IF enum_ok THEN "ok" ELSE "fail"]
            videos == IF d[1] = "playlist" THEN PlaylistItems(d[2]) ELSE ChannelItems(u)
        IN  IF ~enum_ok THEN Finish(Emit(r1, <<Ev("error_scan", 0, 0, "")>>))
            ELSE
            LET r2 == [Emit(r1, <<Ev("found", 0, Len(videos), "")>>) EXCEPT
                           !.videos = videos, !.pc = "membership"]
            IN  IF d[1] = "playlist" THEN r2
                ELSE IF videos = <<>>
                THEN Emit([r2 EXCEPT !.channel_name = UNKNOWN_CHANNEL],
                          <<Ev("channel", 0, 0, UNKNOWN_CHANNEL)>>)
                ELSE LET name == fetch_video_metadata(videos[1].videoId, meta_ok)[2]
                     IN  Emit([r2 EXCEPT !.channel_name = name,
                                         !.net = Append(@, "oembed")],
                              <<Ev("channel", 0, 0, name)>>)

\* ingest.py:504-508, and 575-588 / 677-691: raises tells whether
\* get_vectorstore() raises
MembershipStep(rr, c, raises) ==
    LET ids == get_indexed_video_ids(c, raises)
    IN  IF rr.kind = "video"
        THEN IF ~IsNew(rr.arg, ids)
             THEN Finish(Emit([rr EXCEPT !.indexed_ids = ids],
                              <<Ev("already_indexed", 0, 0, "")>>))
             ELSE [rr EXCEPT !.indexed_ids = ids, !.i = 1, !.pc = "fetch",
                             !.new_videos = <<Item(rr.arg, NoneValue, NoneValue)>>]
        ELSE
        LET new == NewVideos(rr.videos, ids)
            r1  == Emit([rr EXCEPT !.indexed_ids = ids, !.new_videos = new],
                        <<Ev("database", 0, Cardinality(ids), "")>>)
        IN  IF new = <<>> THEN Finish(Emit(r1, <<Ev("all_indexed", 0, 0, "")>>))
            ELSE LET r2 == Emit(r1, <<Ev("new", 0, Len(new), "")>>)
                 IN  IF raises THEN Raise(r2)
                     ELSE [r2 EXCEPT !.i = 1, !.pc = "fetch"]

\* the history of what the caption source answered for a video
CapsAfter(caps, v, cap) ==
    [caps EXCEPT ![v] = IF @ = "none" \/ @ = cap THEN cap ELSE "mixed"]

\* the history of unit i: what the caption source and the store answered and
\* how many records the unit added
UnitEntry(i, video_id, cap) ==
    [i |-> i, video_id |-> video_id, captions |-> cap,
     persist |-> "none", added |-> 0]

Persisted(log, ok, n) ==
    [log EXCEPT ![Len(log)].persist = IF ok THEN "ok" ELSE "fail",
                ![Len(log)].added = IF ok THEN n ELSE 0]

\* ingest.py:510-525, and 592-604 / 696-709: unit i up to the persist step
FetchStep(rr, meta_ok, cap, raises) ==
    LET video == rr.new_videos[rr.i]
        vid   == video.videoId
        meta  == fetch_video_metadata(vid, meta_ok)
        title == IF rr.kind = "video" THEN meta[1] ELSE extract_video_title(video)
        chan  == IF rr.kind = "video" THEN meta[2]
                 ELSE IF rr.kind = "playlist" THEN extract_channel_name(video)
                 ELSE rr.channel_name
        cs    == FetchedChunks(vid, cap)
        r1    == IF rr.kind = "video"
                 THEN [Emit(rr, <<Ev("fetching_info", 0, 0, ""),
                                  Ev("video", 0, 0, title),
                                  Ev("fetching_transcript", 0, 0, "")>>)
                       EXCEPT !.net = @ \o <<"oembed", "captions">>]
                 ELSE [Emit(rr, <<Ev("progress", rr.i, Len(rr.new_videos), Truncated(title))>>)
                       EXCEPT !.net = Append(@, "captions")]
        r2    == [r1 EXCEPT !.unit_title = title, !.unit_channel = chan,
                            !.unit_chunks = cs, !.caps = CapsAfter(@, vid, cap),
                            !.unit_log = Append(@, UnitEntry(rr.i, vid, cap))]
    IN  IF cs = <<>>
        THEN IF rr.kind = "video"
             THEN Finish(Emit(r2, <<Ev("no_transcript", 0, 0, "")>>))
             ELSE NextUnit([Emit(r2, <<Ev("skipped", rr.i, 0, "")>>)
                            EXCEPT !.skipped_count = @ + 1])
        ELSE IF rr.kind = "video"
             THEN LET r3 == Emit(r2, <<Ev("found_chunks", 0, Len(cs), "")>>)
                  IN  IF raises THEN Raise(r3) ELSE [r3 EXCEPT !.pc = "persist"]
             ELSE [r2 EXCEPT !.pc = "persist"]

\* ingest.py:526-551, and 606-634 / 711-743: the persist step of unit i
PersistStep(rr, ok) ==
    LET n  == Len(rr.unit_chunks)
        r1 == [rr EXCEPT !.net = Append(@, "add_documents"),
                         !.unit_log = Persisted(@, ok, n)]
        r2 == IF ok
              THEN [Emit(r1, <<Ev("indexed", rr.i, n, "")>>) EXCEPT
                        !.indexed_count = IF Multi(rr) THEN @ + 1 ELSE @,
                        !.added = @ + n]
              ELSE [Emit(r1, <<Ev("failed", rr.i, 0, "")>>) EXCEPT
                        !.skipped_count = IF Multi(rr) THEN @ + 1 ELSE @,
                        !.persist_failed = TRUE]
    IN  IF Multi(rr) THEN NextUnit(r2)
        ELSE Finish(Emit([r2 EXCEPT !.unit_chunks = <<>>], <<Ev("complete", 0, 0, "")>>))

\* the documents add_documents is given by the persist step of unit i
UnitDocuments(rr, indexed_at) ==
    MakeDocuments(rr.unit_chunks, rr.new_videos[rr.i].videoId,
                  rr.unit_title, rr.unit_channel, indexed_at)

-----------------------------------------------------------------------------
(* The states in which a part of the program is not running *)

ChunkIdle ==
    /\ transcript = <<>>
    /\ entry_i = 0
    /\ current_chunk_text = ""
    /\ current_chunk_start = 0
    /\ current_duration = 0
    /\ chunks = <<>>
    /\ close_idx = <<>>
    /\ close_acc = <<>>
    /\ chunk_pc = "idle"

UrlIdle ==
    /\ url = ""
    /\ url_type = NoneValue
    /\ url_id = NoneValue
    /\ url_pc = "idle"

QueryIdle ==
    /\ q_limit = 0
    /\ q_docs = <<>>
    /\ q_clips = <<>>
    /\ q_pc = "idle"

ServeIdle ==
    /\ serve_pc = "idle"
    /\ serve_url = ""
    /\ messages = <<>>
    /\ stream = <<>>
    /\ serve_raised = FALSE

MainIdle ==
    /\ env_key = NoneValue
    /\ corpus = <<>>
    /\ next_batch = 1
    /\ ingest_vs = FALSE
    /\ rag = [vs_instance |-> NoneValue, vs_api_key |-> NoneValue,
              emb_instance |-> NoneValue, emb_api_key |-> NoneValue]
    /\ run = [r \in RunIds |-> IdleRun]
    /\ runs_started = 0
    /\ ret = [op |-> "none"]
    /\ prev = NoHistory

-----------------------------------------------------------------------------
(* The chunker on its own, one loop iteration per step *)

\* ---- the caption sequences the chunker is run on
MaxFrags == 3

Durations == {Seconds(30), Seconds(40), 605}
Gaps      == {0, Seconds(40), 605}
Words     == <<"hello", "world", "again", "more", "last">>
WordAt(i) == Words[((i - 1) % Len(Words)) + 1]

\* fragment i starts gap[i] after fragment i-1 (after 0 for the first)
RECURSIVE StartAt(_, _)
StartAt(gaps, i) == IF i = 0 THEN 0 ELSE StartAt(gaps, i - 1) + gaps[i]

Transcript(n, gaps, durs, blank) ==
    [i \in 1..n |-> [text     |-> IF blank[i] THEN "" ELSE WordAt(i),
                     start    |-> StartAt(gaps, i),
                     duration |-> durs[i]]]

ChunkInit ==
    /\ \E n \in 0..MaxFrags :
         \E gaps \in [1..n -> Gaps], durs \in [1..n -> Durations],
            blank \in [1..n -> BOOLEAN] :
              transcript = Transcript(n, gaps, durs, blank)
    /\ entry_i = 0
    /\ current_chunk_text = ""
    /\ current_chunk_start = 0
    /\ current_duration = 0
    /\ chunks = <<>>
    /\ close_idx = <<>>
    /\ close_acc = <<>>
    /\ chunk_pc = "loop"
    /\ UrlIdle
    /\ QueryIdle
    /\ MainIdle
    /\ ServeIdle

ChunkState ==
    [text |-> current_chunk_text, start |-> current_chunk_start,
     duration |-> current_duration, chunks |-> chunks,
     close_idx |-> close_idx, close_acc |-> close_acc]

SetChunkState(st) ==
    /\ current_chunk_text' = st.text
    /\ current_chunk_start' = st.start
    /\ current_duration' = st.duration
    /\ chunks' = st.chunks
    /\ close_idx' = st.close_idx
    /\ close_acc' = st.close_acc

\* one iteration of `for entry in transcript`
ChunkEntry ==
    /\ chunk_pc = "loop"
    /\ entry_i < Len(transcript)
    /\ entry_i' = entry_i + 1
    /\ SetChunkState(ChunkLoopBody(ChunkState, transcript[entry_i + 1], entry_i + 1))
    /\ UNCHANGED <<transcript, chunk_pc>>
    /\ UNCHANGED <<urlVars, queryVars, mainVars, serveVars>>

\* the code after the loop, and the return
ChunkFinish ==
    /\ chunk_pc = "loop"
    /\ entry_i = Len(transcript)
    /\ IF transcript = <<>>
       THEN UNCHANGED <<current_chunk_text, current_chunk_start, current_duration,
                        chunks, close_idx, close_acc>>
       ELSE SetChunkState(ChunkLoopEnd(ChunkState, transcript))
    /\ chunk_pc' = "done"
    /\ UNCHANGED <<transcript, entry_i>>
    /\ UNCHANGED <<urlVars, queryVars, mainVars, serveVars>>

ChunkNext == ChunkEntry \/ ChunkFinish

SpecChunk == ChunkInit /\ [][ChunkNext]_vars

-----------------------------------------------------------------------------
(* The classifier on its own *)

\* ---- the reference strings the classifier is run on: up to MaxSegments of
\* these pieces, concatenated
MaxSegments == 3

Segments ==
    {"youtube.com/", "watch", "?v=dQw4w9WgXcQ", "?v=abc", "?list=PL12",
     "&list=PL12", "?list=", "youtu.be/dQw4w9WgXcQ", "youtube.com/@chan",
     "youtube.com/channel/UC12", "mylist=PL12"}

RECURSIVE Concat(_)
Concat(segs) == IF segs = <<>> THEN "" ELSE Head(segs) \o Concat(Tail(segs))

ClassifyInit ==
    /\ \E n \in 0..MaxSegments : \E segs \in [1..n -> Segments] : url = Concat(segs)
    /\ url_type = NoneValue
    /\ url_id = NoneValue
    /\ url_pc = "given"
    /\ ChunkIdle
    /\ QueryIdle
    /\ MainIdle
    /\ ServeIdle

Classify ==
    /\ url_pc = "given"
    /\ url_type' = detect_url_type(url)[1]
    /\ url_id' = detect_url_type(url)[2]
    /\ url_pc' = "classified"
    /\ UNCHANGED url
    /\ UNCHANGED <<chunkVars, queryVars, mainVars, serveVars>>

ClassifyNext == Classify

SpecClassify == ClassifyInit /\ [][ClassifyNext]_vars

-----------------------------------------------------------------------------
(* The retrieval filter on its own: the candidates are what the retriever  *)
(* returned for k = 2 * limit                                               *)

MaxLimit == 2

CandidateStarts == {0, 119, 120, 300}

\* the candidate at rank i, starting at start_seconds
Candidate(i, start_seconds) ==
    [page_content |-> "doc" \o ToString(i),
     metadata |-> [video_id      |-> "dQw4w9WgXcQ",
                   title         |-> "Title",
                   channel_name  |-> "Chan A",
                   start_seconds |-> start_seconds,
                   end_seconds   |-> start_seconds + 60,
                   thumbnail_url |-> "https://img.youtube.com/vi/dQw4w9WgXcQ/mqdefault.jpg"]]

CandidateLists(limit) ==
    UNION { { [i \in 1..n |-> Candidate(i, starts[i])] : starts \in [1..n -> CandidateStarts] } :
            n \in 0..(2 * limit) }

QueryInit ==
    /\ q_limit \in 0..MaxLimit
    /\ q_docs \in CandidateLists(q_limit)
    /\ q_clips = <<>>
    /\ q_pc = "retrieved"
    /\ ChunkIdle
    /\ UrlIdle
    /\ MainIdle
    /\ ServeIdle

QueryFilter ==
    /\ q_pc = "retrieved"
    /\ q_clips' = search_clips(q_docs, q_limit)
    /\ q_pc' = "returned"
    /\ UNCHANGED <<q_limit, q_docs>>
    /\ UNCHANGED <<chunkVars, urlVars, mainVars, serveVars>>

QueryNext == QueryFilter

SpecSearch == QueryInit /\ [][QueryNext]_vars

-----------------------------------------------------------------------------
(* The whole program: ingestion runs, one step at a time, interleaved with *)
(* the calls of the library, rename, delete and transcript operations,     *)
(* over one persisted corpus                                               *)

MaxRuns == 2

EnvKeys == {NoneValue, PLACEHOLDER_API_KEY, SERVER_KEY}
HeaderKeys == {NoneValue, PLACEHOLDER_API_KEY, USER_KEY, OTHER_USER_KEY}
OldNames == {CHAN_A, UNKNOWN_CHANNEL}
NewNames == {CHAN_A, UNKNOWN_CHANNEL}
SearchLimits == {1, 2}
SerialRuns == {1}

NoCall == [op |-> "none"]

\* the outcomes of a collaborator call: it succeeds or fails when it is made
Outcomes(called) == IF called THEN BOOLEAN ELSE {TRUE}

\* rag.py:64-69
EmptyRag ==
    [vs_instance |-> NoneValue, vs_api_key |-> NoneValue,
     emb_instance |-> NoneValue, emb_api_key |-> NoneValue]

\* the caches together with what one call returns or raises
RagCall(c) ==
    [vs_instance |-> c.vs_instance, vs_api_key |-> c.vs_api_key,
     emb_instance |-> c.emb_instance, emb_api_key |-> c.emb_api_key,
     emb_out |-> NoneValue, raised |-> FALSE]

RagCaches(c) ==
    [vs_instance |-> c.vs_instance, vs_api_key |-> c.vs_api_key,
     emb_instance |-> c.emb_instance, emb_api_key |-> c.emb_api_key]

\* the process right after start-up with environment key k (ingest.py:28-40,
\* rag.py:26-69); the collection on disk is whatever c was persisted
Started(k, c) ==
    /\ env_key = k
    /\ corpus = c
    /\ ingest_vs = FALSE
    /\ rag = EmptyRag
    /\ run = [r \in RunIds |-> IdleRun]
    /\ ret = NoCall
    /\ prev = NoHistory

\* the collection found on disk at start-up: nothing, or what an earlier
\* ingestion of the first video persisted
PersistedCorpora ==
    { <<>>,
      AddDocuments(<<>>, MakeDocuments(FetchedChunks(V1, "ok"), V1,
                                       fetch_video_metadata(V1, TRUE)[1],
                                       fetch_video_metadata(V1, TRUE)[2], 0), 0) }

Init ==
    /\ \E k \in EnvKeys, c \in PersistedCorpora : Started(k, c)
    /\ next_batch = 1
    /\ runs_started = 0
    /\ ChunkIdle
    /\ UrlIdle
    /\ QueryIdle
    /\ ServeIdle

OtherVars == <<chunkVars, urlVars, queryVars, serveVars>>

\* a call made while a run is under way is recorded in the run's history; an
\* exhausted generator is dropped
Disturbed(runs) ==
    [r \in RunIds |-> IF InProgress(runs[r]) THEN [runs[r] EXCEPT !.clean = FALSE]
                      ELSE IdleRun]

\* what a step of run r leaves in run and prev
RunStep(r, rr) ==
    /\ run' = [run EXCEPT ![r] = rr]
    /\ prev' = IF rr.pc = "done" THEN HistoryOf(rr, corpus') ELSE NoHistory
    /\ ret' = NoCall

\* ingest_url(u) is called and runs through enumeration, the membership read
\* and the filter, up to the first unit
IngestStart(r, u) ==
    /\ ~InProgress(run[r])
    /\ runs_started < MaxRuns
    /\ \E enum_ok \in Outcomes(Detected[u][1] \in {"playlist", "channel"}) :
       \E meta_ok \in Outcomes(enum_ok /\ Detected[u][1] = "channel") :
         LET alone  == \A o \in RunIds \ {r} : ~InProgress(run[o])
             raises == IngestVectorstoreRaises(ingest_vs, env_key)
             r0 == [StartRun(u, enum_ok, meta_ok) EXCEPT
                       !.clean = alone,
                       !.after_delete = IF ret.op = "delete" /\ ret.result.success
                                        THEN ret.video_id ELSE NoneValue,
                       !.first = IF prev.valid /\ prev.url = u THEN prev ELSE NoHistory]
             rr == IF r0.pc = "membership" THEN MembershipStep(r0, corpus, raises) ELSE r0
         IN  /\ run' = [Disturbed(run) EXCEPT ![r] = rr]
             /\ prev' = IF rr.pc = "done" THEN HistoryOf(rr, corpus) ELSE NoHistory
             /\ ingest_vs' = (ingest_vs \/ (r0.pc = "membership" /\ ~raises))
    /\ ret' = NoCall
    /\ runs_started' = runs_started + 1
    /\ UNCHANGED <<env_key, corpus, next_batch, rag, OtherVars>>

\* unit i of the run: metadata, captions, and add_documents, which succeeds
\* or raises
IngestUnit(r) ==
    /\ run[r].pc = "fetch"
    /\ \E meta_ok \in Outcomes(run[r].kind = "video"), cap \in CaptionOutcomes :
         LET raises == IngestVectorstoreRaises(ingest_vs, env_key)
             r1 == FetchStep(run[r], meta_ok, cap, raises)
         IN  \E ok \in Outcomes(r1.pc = "persist") :
               LET persisted == r1.pc = "persist" /\ ok
                   rr == IF r1.pc = "persist" THEN PersistStep(r1, ok) ELSE r1
               IN  /\ corpus' = IF persisted
                                THEN AddDocuments(corpus, UnitDocuments(r1, next_batch), next_batch)
                                ELSE corpus
                   /\ next_batch' = IF persisted THEN next_batch + 1 ELSE next_batch
                   /\ ingest_vs' = (ingest_vs \/ (run[r].kind = "video" /\ r1.pc = "persist"))
                   /\ RunStep(r, rr)
    /\ UNCHANGED <<env_key, rag, runs_started, OtherVars>>

\* a call of one of the operations below: what it does to the runs
Call(result) ==
    /\ ret' = result
    /\ run' = Disturbed(run)
    /\ prev' = NoHistory

FAULT_MESSAGE == "No API key provided. Set GEMINI_API_KEY in .env.local or provide via header."

GetLibrary ==
    LET raises == IngestVectorstoreRaises(ingest_vs, env_key)
    IN  /\ Call([op |-> "library", faulted |-> raises,
                 result |-> IF raises THEN EmptyLibrary ELSE get_library(corpus)])
        /\ ingest_vs' = (ingest_vs \/ ~raises)
        /\ UNCHANGED <<env_key, corpus, next_batch, rag, runs_started, OtherVars>>

Rename(old_name, new_name) ==
    LET raises == IngestVectorstoreRaises(ingest_vs, env_key)
        result == IF raises
                  THEN [success |-> FALSE, error |-> FAULT_MESSAGE, updatedClips |-> 0]
                  ELSE rename_result(corpus, old_name, new_name)
    IN  /\ Call([op |-> "rename", old_name |-> old_name, new_name |-> new_name,
                 raised |-> FALSE, result |-> result])
        /\ corpus' = IF result.success THEN RenameUpdate(corpus, old_name, new_name)
                     ELSE corpus
        /\ ingest_vs' = (~raises /\ ~result.success)
        /\ UNCHANGED <<env_key, next_batch, rag, runs_started, OtherVars>>

Delete(video_id) ==
    LET raises == IngestVectorstoreRaises(ingest_vs, env_key)
        result == IF raises
                  THEN [success |-> FALSE, error |-> FAULT_MESSAGE, deletedClips |-> 0]
                  ELSE delete_result(corpus, video_id)
    IN  /\ Call([op |-> "delete", video_id |-> video_id,
                 raised |-> FALSE, result |-> result])
        /\ corpus' = IF result.success THEN DeleteRecords(corpus, video_id, 1)
                     ELSE corpus
        /\ ingest_vs' = (~raises /\ ~result.success)
        /\ UNCHANGED <<env_key, next_batch, rag, runs_started, OtherVars>>

GetTranscript(video_id) ==
    LET raises == IngestVectorstoreRaises(ingest_vs, env_key)
        result == IF raises
                  THEN [success |-> FALSE, error |-> FAULT_MESSAGE, chunks |-> <<>>]
                  ELSE transcript_result(corpus, video_id)
    IN  /\ Call([op |-> "transcript", video_id |-> video_id,
                 raised |-> FALSE, result |-> result])
        /\ ingest_vs' = (ingest_vs \/ ~raises)
        /\ UNCHANGED <<env_key, corpus, next_batch, rag, runs_started, OtherVars>>

\* the retriever's answer for k: the records in some similarity order, here
\* the stored order or its reverse, cut to k
Retrieved(c, k, reversed) ==
    LET n == Min(k, Len(c))
    IN  [j \in 1..n |->
            LET rec == IF reversed THEN c[Len(c) + 1 - j] ELSE c[j]
            IN  [page_content |-> rec.document, metadata |-> rec.metadata]]

\* rag.py:138-211
Search(api_key, limit) ==
    LET c == RagGetVectorstore(RagCall(rag), api_key, env_key)
        bad == BadKey(KeyToUse(api_key, env_key))
    IN  /\ rag' = RagCaches(c)
        /\ IF c.raised
           THEN Call([op |-> "search", key |-> KeyToUse(api_key, env_key),
                      bad |-> bad, raised |-> TRUE,
                      net |-> <<>>, limit |-> limit, docs |-> <<>>, clips |-> <<>>])
           ELSE \E reversed \in BOOLEAN :
                  LET docs == Retrieved(corpus, 2 * limit, reversed)
                  IN  Call([op |-> "search", key |-> KeyToUse(api_key, env_key),
                            bad |-> bad, raised |-> FALSE,
                            net |-> <<"similarity_search">>, limit |-> limit,
                            docs |-> docs, clips |-> search_clips(docs, limit)])
        /\ UNCHANGED <<env_key, corpus, next_batch, ingest_vs, runs_started, OtherVars>>


Next ==
    \/ \E r \in SerialRuns, u \in References : IngestStart(r, u)
    \/ \E r \in SerialRuns : IngestUnit(r)
    \/ GetLibrary
    \/ \E old_name \in OldNames, new_name \in NewNames : Rename(old_name, new_name)
    \/ \E video_id \in Videos : Delete(video_id)
    \/ \E video_id \in Videos : GetTranscript(video_id)

Spec == Init /\ [][Next]_vars

\* the search operation and its cached clients on their own, over a
\* collection that is not being written
RagNext == \E api_key \in HeaderKeys, limit \in SearchLimits : Search(api_key, limit)

SpecRag == Init /\ [][RagNext]_vars

\* every operation on the corpus: the six calls in any order
AllReferences == {VIDEO_URL, PLAYLIST_URL, CHANNEL_URL}
AllHeaderKeys == {NoneValue, USER_KEY}

AllNext ==
    \/ \E r \in SerialRuns, u \in AllReferences : IngestStart(r, u)
    \/ \E r \in SerialRuns : IngestUnit(r)
    \/ GetLibrary
    \/ Rename(CHAN_A, UNKNOWN_CHANNEL)
    \/ \E video_id \in Videos : Delete(video_id)
    \/ GetTranscript(V1)
    \/ \E api_key \in AllHeaderKeys : Search(api_key, 1)

SpecAll == Init /\ [][AllNext]_vars

\* ---------------------------------------------------------------------------
\* Two ingestion runs in the executor's threads, with nothing that serializes
\* them (server.py:213-216): the steps of the two interleave
\* ---------------------------------------------------------------------------
RaceReferences == {VIDEO_URL, PLAYLIST_URL, CHANNEL_URL}

RaceNext ==
    \/ \E r \in RunIds, u \in RaceReferences : IngestStart(r, u)
    \/ \E r \in RunIds : IngestUnit(r)

SpecRace == Init /\ [][RaceNext]_vars

\* ---------------------------------------------------------------------------
\* server.py: POST /api/ingest, the event stream of generate_events.  The run
\* is slot 1; the executor thread takes its steps, the endpoint awaits its end.
\* ---------------------------------------------------------------------------
ServedRun == 1

DONE_EVENT == Ev("done", 0, 0, "[DONE]")
ErrorEvent(message) == Ev("error", 0, 0, message)

CloseStreamUnlessError(st) ==
    IF \E k \in 1..Len(st) : st[k].kind = "error" THEN st ELSE Append(st, DONE_EVENT)
CloseStream(st) == Append(st, DONE_EVENT)

\* the request arrives; StreamingResponse starts generate_events
ServeRequest(u) ==
    /\ serve_pc \in {"idle", "closed"}
    /\ runs_started < MaxRuns
    /\ serve_pc' = "requested"
    /\ serve_url' = u
    /\ messages' = <<>>
    /\ stream' = <<>>
    /\ serve_raised' = FALSE
    /\ UNCHANGED <<chunkVars, urlVars, queryVars, mainVars>>

\* run_ingestion in the executor: list(ingest_url(request.url)) takes the
\* run's steps one after the other
ServeStart ==
    /\ serve_pc = "requested"
    /\ run[ServedRun].pc = "idle"
    /\ IngestStart(ServedRun, serve_url)

ServeUnit ==
    /\ serve_pc = "requested"
    /\ IngestUnit(ServedRun)

\* the await returns the collected list, or raises what the run raised and
\* the list is lost
ServeCollect ==
    /\ serve_pc = "requested"
    /\ run[ServedRun].pc = "done"
    /\ serve_raised' = run[ServedRun].raised
    /\ messages' = IF run[ServedRun].raised THEN <<>> ELSE run[ServedRun].events
    /\ serve_pc' = IF run[ServedRun].raised THEN "except" ELSE "streaming"
    /\ run' = [run EXCEPT ![ServedRun] = IdleRun]
    /\ UNCHANGED <<serve_url, stream, chunkVars, urlVars, queryVars,
                   env_key, corpus, next_batch, ingest_vs, rag, runs_started, ret, prev>>

\* for message in messages: yield, then sleep
ServeDeliver ==
    /\ serve_pc = "streaming"
    /\ messages # <<>>
    /\ stream' = Append(stream, Head(messages))
    /\ messages' = Tail(messages)
    /\ UNCHANGED <<serve_pc, serve_url, serve_raised, chunkVars, urlVars, queryVars, mainVars>>

\* except Exception as e: yield the error message
ServeError ==
    /\ serve_pc = "except"
    /\ stream' = Append(stream, ErrorEvent(FAULT_MESSAGE))
    /\ serve_pc' = "closing"
    /\ UNCHANGED <<serve_url, messages, serve_raised, chunkVars, urlVars, queryVars, mainVars>>

\* yield "data: [DONE]", at the end of the loop or of the except branch
ServeClose ==
    /\ \/ serve_pc = "streaming" /\ messages = <<>>
       \/ serve_pc = "closing"
    /\ stream' = CloseStream(stream)
    /\ serve_pc' = "closed"
    /\ UNCHANGED <<serve_url, messages, serve_raised, chunkVars, urlVars, queryVars, mainVars>>

ServeNext ==
    \/ \E u \in References : ServeRequest(u)
    \/ ServeStart
    \/ ServeUnit
    \/ ServeCollect
    \/ ServeDeliver
    \/ ServeError
    \/ ServeClose

SpecServe == Init /\ [][ServeNext]_vars

\* the event loop resumes the endpoint whenever it can go on; the run's steps
\* wait on the network and have no bound
SpecServeLive ==
    /\ SpecServe
    /\ WF_vars(ServeCollect)
    /\ WF_vars(ServeDeliver)
    /\ WF_vars(ServeError)
    /\ WF_vars(ServeClose)

-----------------------------------------------------------------------------
(* Properties of the chunker *)

\* the sum of the durations of fragments a..b of tr
RECURSIVE SumDur(_, _, _)
SumDur(tr, a, b) == IF a > b THEN 0 ELSE tr[b].duration + SumDur(tr, a, b - 1)

\* the fragment after which the accumulation of chunk k began
PrevClose(k) == IF k = 1 THEN 0 ELSE close_idx[k - 1]

\* C2: every emitted chunk but the last had accumulated at least 60 seconds of
\* fragment duration when it was closed; the accumulator restarts from 0 after
\* each close (a chunk's accumulated duration is the sum over the fragments after
\* the previous close, and so is the running accumulator inside the loop).
C2_ChunkThreshold ==
    /\ \A k \in 1..Len(chunks) :
          /\ k < Len(chunks) => close_acc[k] >= Seconds(60)
          /\ close_acc[k] = SumDur(transcript, PrevClose(k) + 1, close_idx[k])
    /\ chunk_pc = "loop" =>
          current_duration = SumDur(transcript, PrevClose(Len(chunks) + 1) + 1, entry_i)

C2_Witness ==
    /\ chunk_pc = "done"
    /\ Len(chunks) >= 2
    /\ close_acc[Len(chunks)] < Seconds(60)
    /\ close_acc[1] > Seconds(60)

OrderedStarts(tr) ==
    /\ \A i \in 1..Len(tr) : tr[i].duration >= 0 /\ tr[i].start >= 0
    /\ \A i \in 2..Len(tr) : tr[i].start > tr[i - 1].start

NonOverlapping(tr) ==
    /\ \A i \in 1..Len(tr) : tr[i].duration >= 0 /\ tr[i].start >= 0
    /\ \A i \in 2..Len(tr) : tr[i].start >= tr[i - 1].start + tr[i - 1].duration

ChunksOrdered ==
    \A k \in 1..(Len(chunks) - 1) :
        /\ chunks[k].start_seconds < chunks[k + 1].start_seconds
        /\ chunks[k].end_seconds <= chunks[k + 1].start_seconds

-----------------------------------------------------------------------------
(* Properties of the classifier *)

HasMarker(patterns, s) == \E k \in 1..Len(patterns) : re_search(patterns[k], s) # 0

-----------------------------------------------------------------------------
(* Properties of the retrieval filter *)

Returned(clips, doc) == \E k \in 1..Len(clips) : clips[k].content = doc.page_content

WithStart(docs, p, start_seconds) ==
    [docs EXCEPT ![p].metadata.start_seconds = start_seconds]

\* the number of candidates ranked before p that the intro filter lets through
EligibleBefore(docs, p) ==
    Cardinality({i \in 1..(p - 1) : docs[i].metadata.start_seconds >= 120})

NoIntroClip ==
    q_pc = "returned" => \A k \in 1..Len(q_clips) : q_clips[k].startSeconds >= 120

\* C5 as stated: no returned clip starts below 120; a candidate at 119 is
\* dropped and the same candidate at 120, at the same rank with the other
\* inputs unchanged, is kept.
C5_IntroBoundaryAsStated ==
    /\ NoIntroClip
    /\ q_pc = "returned" =>
          \A p \in 1..Len(q_docs) :
              q_docs[p].metadata.start_seconds = 119 =>
                  /\ ~Returned(q_clips, q_docs[p])
                  /\ Returned(search_clips(WithStart(q_docs, p, 120), q_limit), q_docs[p])

\* C5, amended: no returned clip starts below 120; a candidate at 119 is
\* dropped, and the same candidate at 120, at the same rank with the other
\* inputs unchanged, is kept exactly when fewer than `limit` eligible candidates
\* are ranked before it.
C5_IntroBoundary ==
    /\ NoIntroClip
    /\ q_pc = "returned" =>
          \A p \in 1..Len(q_docs) :
              q_docs[p].metadata.start_seconds = 119 =>
                  /\ ~Returned(q_clips, q_docs[p])
                  /\ Returned(search_clips(WithStart(q_docs, p, 120), q_limit), q_docs[p])
                       <=> EligibleBefore(q_docs, p) < q_limit

C5_Witness ==
    /\ q_pc = "returned"
    /\ \E p \in 1..Len(q_docs) :
          /\ q_docs[p].metadata.start_seconds = 119
          /\ EligibleBefore(q_docs, p) < q_limit
          /\ \E r \in 1..Len(q_docs) :
                q_docs[r].metadata.start_seconds = 120 /\ Returned(q_clips, q_docs[r])

\* the candidates the intro filter lets through, in rank order
RECURSIVE EligibleDocs(_)
EligibleDocs(docs) ==
    IF docs = <<>> THEN <<>>
    ELSE IF Head(docs).metadata.start_seconds >= 120
         THEN <<Head(docs)>> \o EligibleDocs(Tail(docs))
         ELSE EligibleDocs(Tail(docs))

\* C6: search returns exactly the first min(N, number of eligible candidates)
\* eligible candidates in rank order, the i-th (0-based) carrying the id clip_i;
\* an empty candidate list gives an empty result.
C6_FilterResult ==
    q_pc = "returned" =>
        LET el == EligibleDocs(q_docs)
            n  == Min(q_limit, Len(el))
        IN  /\ Len(q_clips) = n
            /\ \A i \in 1..n :
                  /\ q_clips[i].content = el[i].page_content
                  /\ q_clips[i].startSeconds = el[i].metadata.start_seconds
                  /\ q_clips[i].id = "clip_" \o ToString(i - 1)
            /\ q_docs = <<>> => q_clips = <<>>

C6_Witness ==
    /\ q_pc = "returned"
    /\ Len(q_clips) = 2
    /\ Len(EligibleDocs(q_docs)) > 2
    /\ q_docs[1].metadata.start_seconds < 120
    /\ q_clips[2].id = "clip_1"

-----------------------------------------------------------------------------
(* Properties of re-ingestion *)

\* the run is a second run on the reference of the run before it, nothing
\* was called in between or meanwhile, and the enumeration and the captions
\* were answered as they were in the first run
SameAnswers(first, rr) ==
    /\ first.enum = rr.enum
    /\ \A v \in Videos :
         /\ first.caps[v] # "mixed"
         /\ rr.caps[v] # "mixed"
         /\ (first.caps[v] # "none" /\ rr.caps[v] # "none") => first.caps[v] = rr.caps[v]

Reingested(rr) ==
    /\ rr.pc = "done"
    /\ rr.kind \in {"video", "playlist", "channel"}
    /\ rr.first.valid
    /\ rr.clean
    /\ SameAnswers(rr.first, rr)

-----------------------------------------------------------------------------
(* Properties of the library, rename, delete and transcript operations *)

RECURSIVE SumClipCounts(_)
SumClipCounts(videos) ==
    IF videos = <<>> THEN 0
    ELSE Head(videos).clipCount + SumClipCounts(Tail(videos))

RECURSIVE SumChannelClips(_)
SumChannelClips(channels_list) ==
    IF channels_list = <<>> THEN 0
    ELSE SumClipCounts(Head(channels_list).videos) + SumChannelClips(Tail(channels_list))

\* C7: whenever get_library has returned, the clip counts of all videos of all
\* channels add up to totalClips, totalClips is the number of records in the
\* corpus, and the video counts of all channels add up to totalVideos
C7_LibraryTotals ==
    ret.op = "library" =>
        /\ SumChannelClips(ret.result.channels) = ret.result.totalClips
        /\ ret.result.totalClips = Len(corpus)
        /\ SumVideoCounts(ret.result.channels) = ret.result.totalVideos

\* the number of records tagged with a channel name
Tagged(c, name) == Cardinality({i \in 1..Len(c) : c[i].metadata.channel_name = name})

WithVideo(c, video_id) == {i \in 1..Len(c) : c[i].metadata.video_id = video_id}

\* C8 as the claim states it: a rename_channel(A, B) that succeeds on a corpus
\* with a record tagged A leaves no record tagged A and as many records tagged
\* B as were tagged A, and reports that number
C8_RenameAsStated ==
    [][ (/\ ret'.op = "rename"
         /\ ret'.result.success
         /\ Tagged(corpus, ret'.old_name) >= 1)
        => /\ Tagged(corpus', ret'.old_name) = 0
           /\ Tagged(corpus', ret'.new_name) = Tagged(corpus, ret'.old_name)
           /\ ret'.result.updatedClips = Tagged(corpus, ret'.old_name) ]_vars

\* C8: a rename_channel(A, B) that succeeds on a corpus with a record tagged A
\* reports the number of records that were tagged A; when A and B differ it
\* leaves no record tagged A and the records tagged B are those that were
\* tagged A together with those already tagged B; when A and B are the same
\* name the corpus is left as it was
C8_Rename ==
    [][ (/\ ret'.op = "rename"
         /\ ret'.result.success
         /\ Tagged(corpus, ret'.old_name) >= 1)
        => /\ ret'.result.updatedClips = Tagged(corpus, ret'.old_name)
           /\ Len(corpus') = Len(corpus)
           /\ IF ret'.old_name # ret'.new_name
              THEN /\ Tagged(corpus', ret'.old_name) = 0
                   /\ Tagged(corpus', ret'.new_name) =
                        Tagged(corpus, ret'.old_name) + Tagged(corpus, ret'.new_name)
              ELSE corpus' = corpus ]_vars

C8_Witness ==
    /\ ret.op = "rename"
    /\ ret.result.success
    /\ ret.old_name # ret.new_name
    /\ Tagged(corpus, ret.old_name) = 0
    /\ Tagged(corpus, ret.new_name) > ret.result.updatedClips

\* C9: rename_channel with a name no record carries, delete_video with an id no
\* record carries and get_video_transcript with such an id return
\* success = false with a zero count or an empty chunk list, raise nothing and
\* leave the corpus as it was, on an empty corpus too
C9_AbsenceIsNegative ==
    [][ /\ (ret'.op = "rename" /\ Tagged(corpus, ret'.old_name) = 0)
            => /\ ~ret'.result.success
               /\ ret'.result.updatedClips = 0
               /\ ~ret'.raised
               /\ corpus' = corpus
        /\ (ret'.op = "delete" /\ WithVideo(corpus, ret'.video_id) = {})
            => /\ ~ret'.result.success
               /\ ret'.result.deletedClips = 0
               /\ ~ret'.raised
               /\ corpus' = corpus
        /\ (ret'.op = "transcript" /\ WithVideo(corpus, ret'.video_id) = {})
            => /\ ~ret'.result.success
               /\ ret'.result.chunks = <<>>
               /\ ~ret'.raised
               /\ corpus' = corpus ]_vars

C9_Witness ==
    /\ ret.op = "rename"
    /\ corpus # <<>>
    /\ Tagged(corpus, ret.old_name) = 0
    /\ ~ret.result.success
    /\ ret.result.updatedClips = 0

-----------------------------------------------------------------------------
(* Properties of the credential check *)

\* C10: an ingestion run on a recognised reference, or a search, made while
\* the effective credential is missing or the placeholder has raised the
\* configuration fault without any collaborator network call before it
C10_FailFast ==
    /\ \A r \in RunIds :
         (/\ run[r].pc = "done"
          /\ run[r].kind \in {"video", "playlist", "channel"}
          /\ BadKey(env_key))
            => (run[r].raised /\ run[r].net = <<>>)
    /\ (ret.op = "search" /\ ret.bad) => (ret.raised /\ ret.net = <<>>)

\* the search half of it on its own
SearchFailsFast == (ret.op = "search" /\ ret.bad) => (ret.raised /\ ret.net = <<>>)

-----------------------------------------------------------------------------
(* Properties of the unit loop of a playlist or channel run *)

\* the events a step of a run emitted
NewEvents(a, b) == SubSeq(b.events, Len(a.events) + 1, Len(b.events))

\* the calls to collaborators a step of a run made
NewCalls(a, b) == SubSeq(b.net, Len(a.net) + 1, Len(b.net))

CountKind(evs, kinds, i) ==
    Cardinality({k \in 1..Len(evs) : evs[k].kind \in kinds /\ evs[k].i = i})

CountCalls(calls, name) == Cardinality({k \in 1..Len(calls) : calls[k] = name})

\* the step from a to b is the whole of one unit of the run
UnitStep(a, b) == a.pc = "fetch" /\ Len(b.unit_log) = Len(a.unit_log) + 1

LastUnit(b) == b.unit_log[Len(b.unit_log)]

\* every new video was a unit once, in the order of the enumeration
LogInOrder(b) ==
    /\ Len(b.unit_log) = Len(b.new_videos)
    /\ \A k \in 1..Len(b.unit_log) :
         /\ b.unit_log[k].i = k
         /\ b.unit_log[k].video_id = b.new_videos[k].videoId

\* C11: in a playlist or channel run, a unit whose caption fetch or persist
\* step fails emits exactly one skipped or failed outcome event and no indexed
\* event, adds no record, lets no exception leave the run and is tried once;
\* the run goes on with the next unit, and when the run ends every new video
\* has been a unit once, in enumeration order
C11_UnitFaultIsolation ==
    [][ \A r \in RunIds :
          LET a == run[r]
              b == run'[r]
          IN  /\ (UnitStep(a, b) /\ Multi(a)
                    /\ (LastUnit(b).captions = "fail" \/ LastUnit(b).persist = "fail"))
                 => /\ LastUnit(b).i = a.i
                    /\ CountKind(NewEvents(a, b), {"skipped", "failed"}, a.i) = 1
                    /\ CountKind(NewEvents(a, b), {"indexed"}, a.i) = 0
                    /\ LastUnit(b).added = 0
                    /\ b.added = a.added
                    /\ corpus' = corpus
                    /\ ~b.raised
                    /\ CountCalls(NewCalls(a, b), "captions") = 1
                    /\ CountCalls(NewCalls(a, b), "add_documents") <= 1
                    /\ b.new_videos = a.new_videos
                    /\ IF a.i < Len(a.new_videos)
                       THEN b.pc = "fetch" /\ b.i = a.i + 1
                       ELSE b.pc = "done"
              /\ (UnitStep(a, b) /\ Multi(a) /\ b.pc = "done") => LogInOrder(b) ]_vars

C11_Witness ==
    \E r \in RunIds :
        /\ run[r].pc = "done"
        /\ run[r].kind = "channel"
        /\ Len(run[r].unit_log) = 2
        /\ run[r].unit_log[1].persist = "fail"
        /\ run[r].unit_log[2].persist = "ok"
        /\ ~run[r].raised

-----------------------------------------------------------------------------
(* Properties of a failing enumeration *)

\* the step from a to b is the call of ingest_url that made run b
StartStep(a, b) == ~InProgress(a) /\ b.pc # "idle" /\ runs_started' = runs_started + 1

AfterScanKinds ==
    {"found", "channel", "database", "all_indexed", "new", "progress",
     "skipped", "indexed", "failed", "complete"}

\* C12: when the enumeration of a playlist or channel fails, the run emits
\* one error event as its last event and has ended; it made no call but the
\* enumeration, read no membership (no vector store opened, no database count
\* reported), fetched no captions, persisted nothing, and the corpus is as it
\* was before the run
C12_RunLevelFault ==
    [][ \A r \in RunIds :
          LET a == run[r]
              b == run'[r]
          IN  (StartStep(a, b) /\ b.enum = "fail")
              => /\ b.pc = "done"
                 /\ CountKind(b.events, {"error_scan"}, 0) = 1
                 /\ b.events[Len(b.events)].kind = "error_scan"
                 /\ \A k \in 1..Len(b.events) : b.events[k].kind \notin AfterScanKinds
                 /\ b.net = <<"enumerate">>
                 /\ b.unit_log = <<>>
                 /\ b.added = 0
                 /\ ingest_vs' = ingest_vs
                 /\ corpus' = corpus ]_vars

C12_Witness ==
    \E r \in RunIds :
        /\ run[r].enum = "fail"
        /\ run[r].kind = "channel"
        /\ run[r].pc = "done"
        /\ corpus # <<>>


\* ---------------------------------------------------------------------------
\* The event stream of the ingest endpoint
\* ---------------------------------------------------------------------------
UnitOutcomeKinds == {"skipped", "indexed", "failed"}

\* the served run has finished unit 1 and is at work on its last unit
AtLastUnit ==
    /\ serve_pc = "requested"
    /\ Multi(run[ServedRun])
    /\ run[ServedRun].pc = "fetch"
    /\ Len(run[ServedRun].new_videos) >= 2
    /\ run[ServedRun].i = Len(run[ServedRun].new_videos)
    /\ CountKind(run[ServedRun].events, UnitOutcomeKinds, 1) = 1

Received(kinds, i) == CountKind(stream, kinds, i) >= 1

\* C13: incremental progress delivery.  While a served run with at least two
\* units is still at work on its last unit, the consumer comes to receive the
\* outcome event of unit 1: delivery of the earlier unit's events does not
\* wait for the last unit's work to finish.
C13_IncrementalDelivery == AtLastUnit ~> Received(UnitOutcomeKinds, 1)

\* what the endpoint does instead: while the run is under way the stream is
\* empty
NothingBeforeCollect == serve_pc = "requested" => stream = <<>>

CountDone(st) == Cardinality({k \in 1..Len(st) : st[k] = DONE_EVENT})

\* C14: end-of-stream marker.  A stream that is still open holds no [DONE];
\* a closed stream holds [DONE] exactly once and as its last event; when the
\* run raised, the event before the marker is the error message and nothing
\* else was sent; when it did not, no error message was sent.  Once the run
\* has ended, in whichever way, the stream comes to be closed.
C14_EndOfStreamMarker ==
    /\ [](serve_pc # "closed" => CountDone(stream) = 0)
    /\ [](serve_pc = "closed" =>
            /\ Len(stream) >= 1
            /\ stream[Len(stream)] = DONE_EVENT
            /\ CountDone(stream) = 1
            /\ serve_raised => stream = <<ErrorEvent(FAULT_MESSAGE), DONE_EVENT>>
            /\ ~serve_raised => CountKind(stream, {"error"}, 0) = 0)
    /\ [][(serve_pc = "requested" /\ serve_pc' # "requested")
            => /\ serve_raised' = run[ServedRun].raised
               /\ run[ServedRun].pc = "done"]_vars
    /\ (serve_pc = "requested" /\ run[ServedRun].pc = "done") ~> (serve_pc = "closed")

\* a stream closed after the run raised
C14_Witness ==
    /\ serve_pc = "closed"
    /\ serve_raised
    /\ stream = <<ErrorEvent(FAULT_MESSAGE), DONE_EVENT>>


\* ---------------------------------------------------------------------------
\* delete_video
\* ---------------------------------------------------------------------------
RECURSIVE RecordsOfOthers(_, _)
RecordsOfOthers(c, video_id) ==
    IF c = <<>> THEN <<>>
    ELSE (IF Head(c).metadata.video_id = video_id THEN <<>> ELSE <<Head(c)>>)
         \o RecordsOfOthers(Tail(c), video_id)

DeleteSucceeds == ret' # ret /\ ret'.op = "delete" /\ ret'.result.success

VideoIdsOf(items) == {items[k].videoId : k \in 1..Len(items)}

\* the run started right after delete_video(v) succeeded, and v is among the
\* videos it was asked for
AskedAfterDelete(rr) ==
    /\ rr.after_delete # NoneValue
    /\ \/ rr.kind = "video" /\ rr.arg = rr.after_delete
       \/ Multi(rr) /\ rr.after_delete \in VideoIdsOf(rr.videos)

IndexedInRun(rr, video_id) ==
    \E k \in 1..Len(rr.unit_log) :
        rr.unit_log[k].video_id = video_id /\ rr.unit_log[k].persist = "ok"

\* C15: delete_video removes all and only the target video's records.  When
\* delete_video(v) succeeds the corpus held a record of v, none remains, the
\* records of the other videos are what they were and in their order,
\* deletedClips is the number of records removed, and v has left the
\* indexed-id set.  An ingestion started next that is asked for v treats v as
\* new, and when its unit for v has persisted, v's records are in the corpus
\* again.
C15_DeleteVideo ==
    /\ [][DeleteSucceeds =>
            LET v == ret'.video_id
            IN  /\ WithVideo(corpus, v) # {}
                /\ WithVideo(corpus', v) = {}
                /\ corpus' = RecordsOfOthers(corpus, v)
                /\ ret'.result.deletedClips = Cardinality(WithVideo(corpus, v))
                /\ ret'.result.deletedClips = Len(corpus) - Len(corpus')
                /\ v \in IndexedIds(corpus)
                /\ v \notin IndexedIds(corpus')]_vars
    /\ [](\A r \in RunIds :
            AskedAfterDelete(run[r]) =>
              LET rr == run[r]
                  v  == rr.after_delete
              IN  /\ rr.enum # "fail" => v \notin rr.indexed_ids
                  /\ CountKind(rr.events, {"already_indexed", "all_indexed"}, 0) = 0
                  /\ (rr.pc \in {"fetch", "persist"} \/ rr.unit_log # <<>>)
                        => v \in VideoIdsOf(rr.new_videos)
                  /\ (rr.clean /\ IndexedInRun(rr, v))
                        => (WithVideo(corpus, v) # {} /\ v \in IndexedIds(corpus)))

\* V1 was deleted and a run for V1 started next has indexed V1 again
C15_Witness ==
    /\ run[1].pc = "done"
    /\ run[1].kind = "video"
    /\ run[1].after_delete = V1
    /\ run[1].clean
    /\ IndexedInRun(run[1], V1)
    /\ WithVideo(corpus, V1) # {}


\* ---------------------------------------------------------------------------
\* A video without captions
\* ---------------------------------------------------------------------------
NoCaptions(entry) == entry.captions \in {"fail", "empty"}

OtherFields(rec) ==
    [id |-> rec.id, document |-> rec.document,
     metadata |-> [f \in DOMAIN rec.metadata \ {"channel_name"} |-> rec.metadata[f]]]

IsPrefix(c, d) == Len(c) <= Len(d) /\ SubSeq(d, 1, Len(c)) = c

\* the operation a step was: the call whose answer it left, or a step of an
\* ingestion run
StepOf(op) == ret'.op = op /\ (run' # run \/ ret' # ret \/ corpus' # corpus \/ rag' # rag \/ ingest_vs' # ingest_vs)

\* C17: corpus mutation discipline.  Whatever the step, a record that is in
\* the corpus before and after it has the same text and the same metadata
\* apart from channel_name.  A step of an ingestion run leaves the records
\* there were as they are and in place, and only appends.  rename_channel
\* keeps the number of records, their ids and their order, and changes
\* channel_name only.  search, get_library and get_video_transcript leave the
\* corpus as it is.
C17_MutationDiscipline ==
    [][/\ \A i \in 1..Len(corpus), j \in 1..Len(corpus') :
            corpus[i].id = corpus'[j].id => OtherFields(corpus[i]) = OtherFields(corpus'[j])
       /\ StepOf("none") => IsPrefix(corpus, corpus')
       /\ StepOf("rename") =>
            /\ Len(corpus') = Len(corpus)
            /\ \A i \in 1..Len(corpus) : OtherFields(corpus'[i]) = OtherFields(corpus[i])
       /\ (StepOf("search") \/ StepOf("library") \/ StepOf("transcript"))
            => corpus' = corpus]_vars

\* a rename has just changed records of a corpus that an ingestion run had
\* added to before
C17_Witness ==
    /\ ret.op = "rename"
    /\ ret.result.success
    /\ WithVideo(corpus, V1) # {}
    /\ WithVideo(corpus, V2) # {}
    /\ Tagged(corpus, UNKNOWN_CHANNEL) >= 1
    /\ rag.vs_instance # NoneValue


\* ---------------------------------------------------------------------------
\* The order of the progress events of a playlist or channel run
\* ---------------------------------------------------------------------------
\* the events other than the two the run puts before and amid the listed ones
\* (the detected type, ingest.py:763, and the channel name, ingest.py:675)
RECURSIVE ListedEvents(_)
ListedEvents(evs) ==
    IF evs = <<>> THEN <<>>
    ELSE (IF Head(evs).kind \in {"detected", "channel"} THEN <<>> ELSE <<Head(evs)>>)
         \o ListedEvents(Tail(evs))

\* scan start, count discovered, count already indexed, count new, then for
\* each i of 1..n the progress event i of n and one outcome event of unit i,
\* and last one summary whose two counts add up to n
EventsInOrder(rr) ==
    LET evs == ListedEvents(rr.events)
        n   == Len(rr.new_videos)
    IN  /\ Len(evs) = 4 + 2 * n + 1
        /\ evs[1].kind = "scan"
        /\ evs[2].kind = "found" /\ evs[2].n = Len(rr.videos)
        /\ evs[3].kind = "database" /\ evs[3].n = Cardinality(rr.indexed_ids)
        /\ evs[4].kind = "new" /\ evs[4].n = n
        /\ \A k \in 1..n :
             /\ evs[4 + 2 * k - 1].kind = "progress"
             /\ evs[4 + 2 * k - 1].i = k
             /\ evs[4 + 2 * k - 1].n = n
             /\ evs[4 + 2 * k].kind \in UnitOutcomeKinds
             /\ evs[4 + 2 * k].i = k
        /\ evs[Len(evs)].kind = "complete"
        /\ evs[Len(evs)].i + evs[Len(evs)].n = n
        /\ evs[Len(evs)].i = CountKind(evs, {"indexed"}, 1) + CountKind(evs, {"indexed"}, 2)

EndedWithNew(rr) == rr.pc = "done" /\ Multi(rr) /\ Len(rr.new_videos) >= 1

\* C18: progress event ordering.  A playlist or channel run that found
\* n >= 1 new videos and has ended has emitted scan start, count discovered,
\* count already indexed, count new, then for i = 1..n one progress event
\* i of n followed by exactly one outcome event of unit i, and last a single
\* summary whose indexed and skipped counts add up to n.
C18_EventOrder == \A r \in RunIds : EndedWithNew(run[r]) => EventsInOrder(run[r])

\* the same for the runs that no exception has left
EventOrderUnlessRaised ==
    \A r \in RunIds : (EndedWithNew(run[r]) /\ ~run[r].raised) => EventsInOrder(run[r])


\* ---------------------------------------------------------------------------
\* The chunker as the greedy partition of the fragments
\* ---------------------------------------------------------------------------
\* the last fragment of the run that begins at fragment a: the first one that
\* brings the run's duration to the threshold, or the last fragment of all
RunLast(tr, a) ==
    LET closing == {j \in a..Len(tr) : SumDur(tr, a, j) >= Seconds(CHUNK_SIZE_SECONDS)}
    IN  IF closing = {} THEN Len(tr)
        ELSE CHOOSE j \in closing : \A k \in closing : j <= k

RunClosed(tr, a) == SumDur(tr, a, RunLast(tr, a)) >= Seconds(CHUNK_SIZE_SECONDS)

RECURSIVE JoinTexts(_, _, _)
JoinTexts(tr, a, b) ==
    IF a > b THEN "" ELSE tr[a].text \o (IF a < b THEN " " ELSE "") \o JoinTexts(tr, a + 1, b)

RECURSIVE GreedyPartition(_, _)
GreedyPartition(tr, a) ==
    IF a > Len(tr) THEN <<>>
    ELSE LET b    == RunLast(tr, a)
             text == Strip(JoinTexts(tr, a, b))
         IN  (IF ~RunClosed(tr, a) /\ text = "" THEN <<>>
              ELSE << [text          |-> text,
                       start_seconds |-> IntPart(tr[a].start),
                       end_seconds   |-> IntPart(tr[b].start + tr[b].duration)] >>)
             \o GreedyPartition(tr, b + 1)

\* the words of a text, and of the texts of a sequence of chunks or fragments
RECURSIVE WordsFrom(_, _, _)
WordsFrom(s, i, word) ==
    IF i > Len(s) THEN (IF word = "" THEN <<>> ELSE <<word>>)
    ELSE IF SubSeq(s, i, i) = " "
         THEN (IF word = "" THEN <<>> ELSE <<word>>) \o WordsFrom(s, i + 1, "")
         ELSE WordsFrom(s, i + 1, word \o SubSeq(s, i, i))

RECURSIVE WordsOfAll(_)
WordsOfAll(items) ==
    IF items = <<>> THEN <<>>
    ELSE WordsFrom(Head(items).text, 1, "") \o WordsOfAll(Tail(items))

HelloWorld ==
    << [text |-> "hello", start |-> 0, duration |-> Seconds(40)],
       [text |-> "world", start |-> Seconds(40), duration |-> Seconds(30)] >>

Batches(c, video_id) == {c[i].id[1] : i \in WithVideo(c, video_id)}

BothIndexed(video_id) ==
    IndexedInRun(run[1], video_id) /\ IndexedInRun(run[2], video_id)

\* C20: stale membership snapshot.  A run reads the indexed-id set once, in
\* the step that starts it, and keeps it and the list of new videos made from
\* it through all its units, whatever the corpus has become.  A run started
\* while no other run is under way reads the corpus as the runs before it left
\* it (when the store can be opened), so none of its new videos is in the
\* corpus; started right after a run of
\* the same reference has ended, it adds nothing to a video that run indexed,
\* whose records stay those of one run.  Only runs that were under way at the
\* same time, neither having the video in its snapshot, both persist a batch
\* for the same video, and then the video's records are there twice.
C20_StaleSnapshot ==
    /\ [][\A r \in RunIds :
            LET a == run[r]
                b == run'[r]
            IN  /\ (a.pc = "fetch" /\ b.pc # "idle") =>
                      (b.indexed_ids = a.indexed_ids /\ b.new_videos = a.new_videos)
                /\ (StartStep(a, b) /\ b.clean /\ b.pc = "fetch"
                      /\ ~IngestVectorstoreRaises(ingest_vs, env_key)) =>
                      /\ b.indexed_ids = IndexedIds(corpus)
                      /\ \A k \in 1..Len(b.new_videos) :
                            b.new_videos[k].videoId \notin IndexedIds(corpus)]_vars
    /\ [](\A r \in RunIds :
            (run[r].first.valid /\ run[r].clean) =>
               \A v \in IndexedIds(run[r].first.corpus) :
                  /\ ~IndexedInRun(run[r], v)
                  /\ WithVideo(corpus, v) = WithVideo(run[r].first.corpus, v))
    /\ [](\A v \in Videos :
            BothIndexed(v) =>
               /\ ~run[1].clean /\ ~run[2].clean
               /\ v \notin run[1].indexed_ids /\ v \notin run[2].indexed_ids
               /\ Cardinality(Batches(corpus, v)) >= 2)

\* two runs for the same channel were under way together, both passed the
\* membership read before either persisted, and both persisted a batch for V1
C20_Witness ==
    /\ run[1].pc = "done" /\ run[2].pc = "done"
    /\ run[1].url = CHANNEL_URL /\ run[2].url = CHANNEL_URL
    /\ BothIndexed(V1)
    /\ V1 \notin run[1].indexed_ids /\ V1 \notin run[2].indexed_ids
    /\ Cardinality(Batches(corpus, V1)) = 2
    /\ Cardinality(WithVideo(corpus, V1)) = 2 * Len(ChunksOf[V1])


\* ---------------------------------------------------------------------------
\* The batches of one video, with the runs executed one at a time
\* ---------------------------------------------------------------------------
Listings(items, video_id) == {k \in 1..Len(items) : items[k].videoId = video_id}

\* C21: no duplicate batches per video.  With the ingestion runs executed one
\* at a time, and rename_channel and delete_video called in between, every
\* video in the corpus has the records of exactly one persisted batch, also
\* when the enumeration of a playlist or channel lists a video more than once.
C21_OneBatchPerVideo ==
    \A v \in Videos : WithVideo(corpus, v) # {} => Cardinality(Batches(corpus, v)) = 1

\* where the second batch comes from: a step of a run whose list of new
\* videos holds the video more than once
SecondBatchFromRepeatedListing ==
    [][\A v \in Videos :
          (Cardinality(Batches(corpus, v)) <= 1 /\ Cardinality(Batches(corpus', v)) >= 2)
             => \E r \in RunIds :
                   /\ run[r].pc = "fetch"
                   /\ Multi(run[r])
                   /\ Cardinality(Listings(run[r].new_videos, v)) >= 2]_vars


\* ---------------------------------------------------------------------------
\* The cached vector store of rag.py and the key recorded for it
\* ---------------------------------------------------------------------------
\* the key recorded for the cached instance is the key it was built with
RecordedKeyIsBuildKey == rag.vs_instance # NoneValue => rag.vs_api_key = rag.vs_instance

\* a search whose get_vectorstore call raised has left the cached instance
\* and the recorded key as they were
FailedCallLeavesCache ==
    (ret'.op = "search" /\ ret'.raised) =>
        /\ rag'.vs_instance = rag.vs_instance
        /\ rag'.vs_api_key = rag.vs_api_key

\* the instance the last search was given was built with the effective
\* credential of that search
ReturnedToBuildKeyOnly ==
    (ret.op = "search" /\ ~ret.raised) => rag.vs_instance = ret.key

\* C22: search client cache consistency.  After any sequence of search calls
\* the key recorded for the cached vector store is the credential the cached
\* instance was built with; a get_vectorstore call that fails leaves the
\* cached instance and its recorded key as they were; and the instance a call
\* is given was built with that call's effective credential.
C22_CacheConsistency ==
    /\ []RecordedKeyIsBuildKey
    /\ [][FailedCallLeavesCache]_vars
    /\ []ReturnedToBuildKeyOnly

\* each part on its own
C22_RecordedKey == []RecordedKeyIsBuildKey
C22_FailedCall == [][FailedCallLeavesCache]_vars
C22_Returned == []ReturnedToBuildKeyOnly


\* ---------------------------------------------------------------------------
\* The library's video count and the membership set
\* ---------------------------------------------------------------------------
ChannelsOfVideo(c, video_id) == {c[i].metadata.channel_name : i \in WithVideo(c, video_id)}

\* the channels of the library that list the video
ListedUnder(library, video_id) ==
    {k \in 1..Len(library.channels) :
        \E j \in 1..Len(library.channels[k].videos) :
            library.channels[k].videos[j].videoId = video_id}

\* C23: library video count matches the membership set.  In every corpus
\* reached through ingest, rename_channel and delete_video, all records of one
\* video carry the same channel_name, each indexed video is listed under
\* exactly one channel of get_library, and totalVideos is the number of
\* distinct video ids get_indexed_video_ids returns.
C23_LibraryMatchesMembership ==
    /\ \A v \in Videos : Cardinality(ChannelsOfVideo(corpus, v)) <= 1
    /\ \A v \in get_indexed_video_ids(corpus, FALSE) :
          Cardinality(ListedUnder(get_library(corpus), v)) = 1
    /\ get_library(corpus).totalVideos = Cardinality(get_indexed_video_ids(corpus, FALSE))

\* where two channel names for one video come from: the video already has
\* records, under another name, when a run persists a batch for it
SecondChannelFromSecondBatch ==
    [][\A v \in Videos :
          (Cardinality(ChannelsOfVideo(corpus, v)) <= 1
             /\ Cardinality(ChannelsOfVideo(corpus', v)) >= 2)
             => /\ WithVideo(corpus, v) # {}
                /\ Len(corpus') > Len(corpus)
                /\ Cardinality(Batches(corpus', v)) >= 2]_vars

=============================================================================
